---- MODULE Spec2Model ----
(***************************************************************************)
(* The blog persistence schema of D5E-Blog/blog/models.py as a state       *)
(* machine over the relational store: the user table, the Post table and   *)
(* the Comment table, with the write paths the declarations give them      *)
(* (Model.__init__ defaults, Model.save with the fields' pre_save hooks,   *)
(* Model.full_clean, Model.delete with its cascade collector), the two     *)
(* managers as read paths, and get_absolute_url.                           *)
(*                                                                         *)
(* Free-text payload columns (title, body, tags, name, email) are read by  *)
(* no modelled operation and are left out of the rows.                     *)
(*                                                                         *)
(* Time is a counter of clock slots; SlotsPerDay slots make one calendar   *)
(* day, and slot 0 is the first slot of 2023-12-31, so that the window     *)
(* crosses a day, a month and a year boundary.                             *)
(***************************************************************************)
EXTENDS Integers, Sequences, FiniteSets, TLC

\* ---- bounds of the model ------------------------------------------------
MaxTime == 2
SlotsPerDay == 2
MaxPosts == 2
MaxComments == 2

\* ---- input universes ----------------------------------------------------
Users == {"u1", "u2"}
Slugs == {"hi", "yo"}
Writers == {"w1", "w2"}
Times == 0..MaxTime

\* Post.Status (TextChoices): the stored codes.
Status_DRAFT == "DF"
Status_PUBLISHED == "PB"
Status_choices == {Status_DRAFT, Status_PUBLISHED}
\* What a caller may put in the status attribute: any short string.
StatusInputs == Status_choices \cup {"XX"}

\* The null foreign key (Python None); primary keys start at 1.
None == 0

VARIABLES
    users,          \* rows of settings.AUTH_USER_MODEL (their keys)
    posts,          \* Post table: pk -> row
    comments,       \* Comment table: pk -> row
    nextPostId,     \* Post pk sequence
    nextCommentId,  \* Comment pk sequence
    now,            \* the clock timezone.now() reads
    instances,      \* per writer: the unsaved Post instance that passed full_clean
    reversed        \* the last call handed to django.urls.reverse

vars == <<users, posts, comments, nextPostId, nextCommentId, now, instances, reversed>>

\* ---- datetime -----------------------------------------------------------
DayIndex(t) == t \div SlotsPerDay
year(t) == IF DayIndex(t) = 0 THEN 2023 ELSE 2024
month(t) == IF DayIndex(t) = 0 THEN 12 ELSE 1
day(t) == IF DayIndex(t) = 0 THEN 31 ELSE DayIndex(t)
\* The date component a unique_for_date lookup compares.
date(t) == <<year(t), month(t), day(t)>>

\* ---- helpers ------------------------------------------------------------
\* Attribute assignment on an instance: the named attributes take new values.
setattrs(row, changes) ==
    [f \in DOMAIN row |-> IF f \in DOMAIN changes THEN changes[f] ELSE row[f]]

Has(kwargs, f) == f \in DOMAIN kwargs

\* ---- Post: construction and the write path ---------------------------------
\* Mutant: status declared with default=Status.PUBLISHED.
Post_init_published(kwargs) ==
    [author  |-> kwargs.author,
     slug    |-> kwargs.slug,
     publish |-> IF Has(kwargs, "publish") THEN kwargs.publish ELSE now,
     status  |-> IF Has(kwargs, "status") THEN kwargs.status ELSE Status_PUBLISHED,
     created |-> IF Has(kwargs, "created") THEN kwargs.created ELSE None,
     updated |-> IF Has(kwargs, "updated") THEN kwargs.updated ELSE None]

\* Model.__init__: the declared defaults fill what the caller leaves out.
Post_init(kwargs) ==
    [author  |-> kwargs.author,
     slug    |-> kwargs.slug,
     publish |-> IF Has(kwargs, "publish") THEN kwargs.publish ELSE now,
     status  |-> IF Has(kwargs, "status") THEN kwargs.status ELSE Status_DRAFT,
     created |-> IF Has(kwargs, "created") THEN kwargs.created ELSE None,
     updated |-> IF Has(kwargs, "updated") THEN kwargs.updated ELSE None]

\* DateTimeField.pre_save for created (auto_now_add): now on insert only.
created_pre_save(inst, add) == IF add THEN now ELSE inst.created
\* DateTimeField.pre_save for updated (auto_now): now on every save.
updated_pre_save(inst, add) == now

\* The row Model.save writes for an instance.
Post_row(inst, add) ==
    [inst EXCEPT !.created = created_pre_save(inst, add),
                 !.updated = updated_pre_save(inst, add)]

\* The database's own checks on a Post row: the author foreign key.
Post_db_ok(row) == row.author \in users

\* Post(**kwargs).save() / Post.objects.create(**kwargs): INSERT.
Post_insert(inst) ==
    /\ nextPostId <= MaxPosts
    /\ Post_db_ok(inst)
    /\ posts' = posts @@ (nextPostId :> Post_row(inst, TRUE))
    /\ nextPostId' = nextPostId + 1

PostCreate(kwargs) ==
    /\ Post_insert(Post_init(kwargs))
    /\ UNCHANGED <<users, comments, nextCommentId, now, instances, reversed>>

\* post = Post.objects.get(pk=id); post.<f> = v ...; post.save(): UPDATE of
\* every column from the instance's attributes.
PostUpdate(id, changes) ==
    /\ id \in DOMAIN posts
    /\ LET inst == setattrs(posts[id], changes)
       IN /\ Post_db_ok(inst)
          /\ posts' = [posts EXCEPT ![id] = Post_row(inst, FALSE)]
    /\ UNCHANGED <<users, comments, nextPostId, nextCommentId, now, instances, reversed>>

\* post.delete(): the collector removes the comments that reference the post
\* (Comment.post, on_delete=CASCADE), then the post.
Restrict(f, S) == [x \in S |-> f[x]]

\* Mutant: Comment.post declared with on_delete=DO_NOTHING.
Comment_on_delete_nothing(deleted) == comments

Comment_on_delete(deleted) ==
    Restrict(comments, {c \in DOMAIN comments : comments[c].post \notin deleted})

PostDelete(id) ==
    /\ id \in DOMAIN posts
    /\ posts' = Restrict(posts, DOMAIN posts \ {id})
    /\ comments' = Comment_on_delete({id})
    /\ UNCHANGED <<users, nextPostId, nextCommentId, now, instances, reversed>>

\* user.delete(): the collector removes the user's posts (Post.author,
\* on_delete=CASCADE) and, through them, their comments, then the user.
Post_on_delete(u) == {id \in DOMAIN posts : posts[id].author = u}

UserDelete(u) ==
    /\ u \in users
    /\ users' = users \ {u}
    /\ posts' = Restrict(posts, DOMAIN posts \ Post_on_delete(u))
    /\ comments' = Comment_on_delete(Post_on_delete(u))
    /\ UNCHANGED <<nextPostId, nextCommentId, now, instances, reversed>>

\* ---- Comment: construction and the write path ------------------------------
Comment_init(kwargs) ==
    [post    |-> IF Has(kwargs, "post") THEN kwargs.post ELSE None,
     active  |-> IF Has(kwargs, "active") THEN kwargs.active ELSE TRUE,
     created |-> IF Has(kwargs, "created") THEN kwargs.created ELSE None,
     updated |-> IF Has(kwargs, "updated") THEN kwargs.updated ELSE None]

Comment_row(inst, add) ==
    [inst EXCEPT !.created = created_pre_save(inst, add),
                 !.updated = updated_pre_save(inst, add)]

\* Mutant: Comment.post declared with null=True.
Comment_db_ok_nullable(row) == row.post = None \/ row.post \in DOMAIN posts

\* The database's own checks on a Comment row: post_id is NOT NULL and a
\* foreign key into the Post table.
Comment_db_ok(row) == row.post # None /\ row.post \in DOMAIN posts

CommentCreate(kwargs) ==
    /\ nextCommentId <= MaxComments
    /\ LET inst == Comment_init(kwargs)
       IN /\ Comment_db_ok(inst)
          /\ comments' = comments @@ (nextCommentId :> Comment_row(inst, TRUE))
    /\ nextCommentId' = nextCommentId + 1
    /\ UNCHANGED <<users, posts, nextPostId, now, instances, reversed>>

CommentUpdate(id, changes) ==
    /\ id \in DOMAIN comments
    /\ LET inst == setattrs(comments[id], changes)
       IN /\ Comment_db_ok(inst)
          /\ comments' = [comments EXCEPT ![id] = Comment_row(inst, FALSE)]
    /\ UNCHANGED <<users, posts, nextPostId, nextCommentId, now, instances, reversed>>

CommentDelete(id) ==
    /\ id \in DOMAIN comments
    /\ comments' = Restrict(comments, DOMAIN comments \ {id})
    /\ UNCHANGED <<users, posts, nextPostId, nextCommentId, now, instances, reversed>>

\* ---- validation: Model.full_clean -------------------------------------------
\* Field.validate with choices, and ForeignKey.validate (the author exists).
Post_clean_fields(inst) ==
    /\ inst.status \in Status_choices
    /\ inst.author \in users

\* Model.validate_unique, _perform_date_checks for slug (unique_for_date=
\* 'publish'): no other row has this slug on the publish value's date.
Post_validate_unique(inst, pk) ==
    ~ \E id \in DOMAIN posts :
          /\ id # pk
          /\ posts[id].slug = inst.slug
          /\ date(posts[id].publish) = date(inst.publish)

Post_full_clean(inst, pk) ==
    /\ Post_clean_fields(inst)
    /\ Post_validate_unique(inst, pk)

NoInstance == [pending |-> FALSE]

\* A writer builds a Post and validates it (ModelForm.is_valid): a query
\* against the table as it is now.
FullClean(w, kwargs) ==
    /\ ~ instances[w].pending
    /\ LET inst == Post_init(kwargs)
       IN /\ Post_full_clean(inst, None)
          /\ instances' = [instances EXCEPT ![w] = [pending |-> TRUE, inst |-> inst]]
    /\ UNCHANGED <<users, posts, comments, nextPostId, nextCommentId, now, reversed>>

\* The writer then saves the validated instance (form.save()): a later statement.
WriterSave(w) ==
    /\ instances[w].pending
    /\ Post_insert(instances[w].inst)
    /\ instances' = [instances EXCEPT ![w] = NoInstance]
    /\ UNCHANGED <<users, comments, nextCommentId, now, reversed>>

\* ---- the read paths -----------------------------------------------------------
\* Post.objects: models.Manager().get_queryset(), every row.
Manager_get_queryset == DOMAIN posts

\* Mutant: the manager filters on Status.DRAFT.
PublishedManager_get_queryset_draft ==
    {id \in Manager_get_queryset : posts[id].status = Status_DRAFT}

\* Post.published: PublishedManager.get_queryset().
PublishedManager_get_queryset ==
    {id \in Manager_get_queryset : posts[id].status = Status_PUBLISHED}

\* ORDER BY key (DESC when desc): every sequence the database may return; rows
\* with equal keys come in either order.
RECURSIVE OrderBy(_, _, _)
OrderBy(S, key, desc) ==
    IF S = {} THEN {<<>>}
    ELSE LET first == {x \in S : \A y \in S :
                          IF desc THEN key[x] >= key[y] ELSE key[x] <= key[y]}
         IN UNION {{<<x>> \o rest : rest \in OrderBy(S \ {x}, key, desc)} : x \in first}

\* Mutant: Post.Meta.ordering = ['publish'].
Post_ordering_ascending(qs) == OrderBy(qs, [id \in qs |-> posts[id].publish], FALSE)

\* Post.Meta.ordering = ['-publish'], applied to a queryset of either manager.
Post_ordering(qs) == OrderBy(qs, [id \in qs |-> posts[id].publish], TRUE)

\* Comment.Meta.ordering = ['created'].
Comment_ordering(qs) == OrderBy(qs, [id \in qs |-> comments[id].created], FALSE)

\* ---- Post.get_absolute_url -------------------------------------------------------
NoReverse == [viewname |-> "", args |-> <<>>]

\* Mutant: day and month handed over in the other order.
get_absolute_url_day_month(p) ==
    [viewname |-> "blog:post_detail",
     args     |-> <<year(p.publish), day(p.publish), month(p.publish), p.slug>>]

get_absolute_url(p) ==
    [viewname |-> "blog:post_detail",
     args     |-> <<year(p.publish), month(p.publish), day(p.publish), p.slug>>]

GetAbsoluteUrl(id) ==
    /\ id \in DOMAIN posts
    /\ reversed' = get_absolute_url(posts[id])
    /\ UNCHANGED <<users, posts, comments, nextPostId, nextCommentId, now, instances>>

\* ---- the clock ---------------------------------------------------------------------
Tick ==
    /\ now < MaxTime
    /\ now' = now + 1
    /\ UNCHANGED <<users, posts, comments, nextPostId, nextCommentId, instances, reversed>>

\* ---- initial states --------------------------------------------------------
\* An empty blog beside a populated user table.
Init ==
    /\ users = Users
    /\ posts = <<>>
    /\ comments = <<>>
    /\ nextPostId = 1
    /\ nextCommentId = 1
    /\ now = 0
    /\ instances = [w \in Writers |-> NoInstance]
    /\ reversed = NoReverse

\* The same, the blog being set up at any time of the window.
InitAnyTime ==
    /\ users = Users
    /\ posts = <<>>
    /\ comments = <<>>
    /\ nextPostId = 1
    /\ nextCommentId = 1
    /\ now \in Times
    /\ instances = [w \in Writers |-> NoInstance]
    /\ reversed = NoReverse

\* ---- Spec: the publishing life cycle of posts ------------------------------
Next ==
    \/ Tick
    \/ PostCreate([author |-> "u1", slug |-> "hi"])
    \/ \E s \in StatusInputs : PostCreate([author |-> "u1", slug |-> "hi", status |-> s])
    \/ \E id \in DOMAIN posts, s \in StatusInputs : PostUpdate(id, [status |-> s])
    \/ \E id \in DOMAIN posts : PostDelete(id)

Spec == Init /\ [][Next]_vars

\* ---- SpecSlug: slugs, publish dates and canonical URLs ---------------------
NextSlug ==
    \/ \E g \in Slugs, t \in Times :
          PostCreate([author |-> "u1", slug |-> g, publish |-> t])
    \/ \E id \in DOMAIN posts, g \in Slugs : PostUpdate(id, [slug |-> g])
    \/ \E id \in DOMAIN posts, t \in Times : PostUpdate(id, [publish |-> t])
    \/ \E id \in DOMAIN posts : PostUpdate(id, [status |-> Status_PUBLISHED])
    \/ \E id \in DOMAIN posts : GetAbsoluteUrl(id)

SpecSlug == Init /\ [][NextSlug]_vars

\* ---- SpecRace: two writers, every insert validated before it is saved ------
NextRace ==
    \/ \E w \in Writers, g \in Slugs, t \in Times :
          FullClean(w, [author |-> "u1", slug |-> g, publish |-> t])
    \/ \E w \in Writers, g \in Slugs, t \in Times, st \in StatusInputs :
          FullClean(w, [author |-> "u1", slug |-> g, publish |-> t, status |-> st])
    \/ \E w \in Writers : WriterSave(w)

SpecRace == Init /\ [][NextRace]_vars

\* ---- SpecCascade: users, their posts and the comments on them ----------------
NextCascade ==
    \/ \E u \in Users : PostCreate([author |-> u, slug |-> "hi"])
    \/ \E id \in DOMAIN posts, u \in Users : PostUpdate(id, [author |-> u])
    \/ \E id \in DOMAIN posts : PostDelete(id)
    \/ \E u \in Users : UserDelete(u)
    \/ \E p \in 0..MaxPosts, a \in BOOLEAN :
          CommentCreate(IF a THEN [post |-> p] ELSE [post |-> p, active |-> FALSE])
    \/ \E id \in DOMAIN comments, p \in 0..MaxPosts : CommentUpdate(id, [post |-> p])
    \/ \E id \in DOMAIN comments : CommentUpdate(id, [active |-> ~ comments[id].active])

SpecCascade == Init /\ [][NextCascade]_vars

\* ---- SpecReassign: comments moved between posts over time --------------------
NextReassign ==
    \/ Tick
    \/ PostCreate([author |-> "u1", slug |-> "hi"])
    \/ \E id \in DOMAIN posts : PostDelete(id)
    \/ \E p \in 0..MaxPosts : CommentCreate([post |-> p])
    \/ \E id \in DOMAIN comments, p \in 0..MaxPosts : CommentUpdate(id, [post |-> p])
    \/ \E id \in DOMAIN comments : CommentDelete(id)

SpecReassign == Init /\ [][NextReassign]_vars

\* ---- SpecOrder: posts with chosen publish times, and the comments on the first
\* post arriving over time
NextOrder ==
    \/ Tick
    \/ \E t \in Times, st \in Status_choices :
          PostCreate([author |-> "u1", slug |-> "hi", publish |-> t, status |-> st])
    \/ CommentCreate([post |-> 1])

SpecOrder == Init /\ [][NextOrder]_vars

\* ---- SpecDefaults: rows created with and without the optional arguments -----
\* Post(...) keyword arguments with and without publish and status.
PostKwargs(hasPublish, t, hasStatus, st) ==
    CASE hasPublish /\ hasStatus ->
            [author |-> "u1", slug |-> "hi", publish |-> t, status |-> st]
      [] hasPublish /\ ~ hasStatus -> [author |-> "u1", slug |-> "hi", publish |-> t]
      [] ~ hasPublish /\ hasStatus -> [author |-> "u1", slug |-> "hi", status |-> st]
      [] OTHER -> [author |-> "u1", slug |-> "hi"]

NextDefaults ==
    \/ \E hasPublish, hasStatus \in BOOLEAN, t \in Times, st \in Status_choices :
          PostCreate(PostKwargs(hasPublish, t, hasStatus, st))
    \/ \E id \in DOMAIN posts, st \in Status_choices : PostUpdate(id, [status |-> st])
    \/ \E a \in BOOLEAN :
          CommentCreate(IF a THEN [post |-> 1] ELSE [post |-> 1, active |-> FALSE])

SpecDefaults == InitAnyTime /\ [][NextDefaults]_vars

\* ---- SpecTime: saves over time, callers supplying timestamps of their own ----
NextTime ==
    \/ Tick
    \/ PostCreate([author |-> "u1", slug |-> "hi"])
    \/ \E t \in Times :
          PostCreate([author |-> "u1", slug |-> "hi", created |-> t, updated |-> t])
    \/ \E id \in DOMAIN posts : PostUpdate(id, [status |-> Status_PUBLISHED])
    \/ \E id \in DOMAIN posts, t \in Times : PostUpdate(id, [updated |-> t])
    \/ \E id \in DOMAIN posts, t \in Times : PostUpdate(id, [created |-> t])
    \/ CommentCreate([post |-> 1])
    \/ \E t \in Times : CommentCreate([post |-> 1, created |-> t, updated |-> t])
    \/ \E id \in DOMAIN comments : CommentUpdate(id, [active |-> FALSE])
    \/ \E id \in DOMAIN comments, t \in Times : CommentUpdate(id, [updated |-> t])
    \/ \E id \in DOMAIN comments, t \in Times : CommentUpdate(id, [created |-> t])

SpecTime == Init /\ [][NextTime]_vars

\* Every primary key the Post sequence has handed out so far.
PostKeys == 1..(nextPostId - 1)
CommentKeys == 1..(nextCommentId - 1)

\* C1: in every reachable state the published accessor holds a post exactly
\* when that post is stored now and its status is Published, and every result
\* it returns lists exactly those rows of the unrestricted accessor, each once.
C1_PublishedIffStatus ==
    /\ \A id \in PostKeys :
          id \in PublishedManager_get_queryset
              <=> (id \in DOMAIN posts /\ posts[id].status = "PB")
    /\ \A r \in Post_ordering(PublishedManager_get_queryset) :
          /\ Len(r) = Cardinality({id \in DOMAIN posts : posts[id].status = "PB"})
          /\ \A i \in 1..Len(r) :
                r[i] \in Manager_get_queryset /\ posts[r[i]].status = "PB"

\* A post published by a later update is in the accessor while a deleted post
\* and a draft are not.
C1_Witness ==
    /\ \E id \in PublishedManager_get_queryset : posts[id].updated > posts[id].created
    /\ \E id \in PostKeys : id \notin DOMAIN posts

\* C2 (as claimed): no two distinct stored posts share a slug and a publish date.
C2_UniqueSlugForDate ==
    \A a, b \in DOMAIN posts :
        (a # b /\ posts[a].slug = posts[b].slug)
            => date(posts[a].publish) # date(posts[b].publish)

\* C3 (as claimed): with every insert validated first, of the inserts by two
\* writers of one slug on one publish date at most one succeeds: the table never
\* holds more than one row for a slug and a date.
C3_AtMostOneInsertSucceeds ==
    \A g \in Slugs, t \in Times :
        Cardinality({id \in DOMAIN posts :
                        posts[id].slug = g /\ date(posts[id].publish) = date(t)}) <= 1

\* C5 (as claimed): every stored post's status is Draft or Published.
C5_StatusInChoices ==
    \A id \in DOMAIN posts : posts[id].status \in {"DF", "PB"}

\* C8: every call of get_absolute_url hands reverse() the route
\* 'blog:post_detail' and the post's publish year, month, day and its slug, in
\* that order (2024-01-01 and "hi" give 2024, 1, 1, "hi"), and leaves the store
\* as it was; posts that agree on publish date and slug give the same call, and
\* a write that changes neither leaves a post's call unchanged.
C8_UrlComponents ==
    [][/\ \A id \in DOMAIN posts :
             GetAbsoluteUrl(id) =>
                 /\ reversed'.viewname = "blog:post_detail"
                 /\ Len(reversed'.args) = 4
                 /\ reversed'.args[1] = year(posts[id].publish)
                 /\ reversed'.args[2] = month(posts[id].publish)
                 /\ reversed'.args[3] = day(posts[id].publish)
                 /\ reversed'.args[4] = posts[id].slug
                 /\ (DayIndex(posts[id].publish) = 1 /\ posts[id].slug = "hi"
                        => reversed'.args = <<2024, 1, 1, "hi">>)
                 /\ (DayIndex(posts[id].publish) = 0 /\ posts[id].slug = "yo"
                        => reversed'.args = <<2023, 12, 31, "yo">>)
                 /\ UNCHANGED <<users, posts, comments, nextPostId, nextCommentId>>
       /\ \A a, b \in DOMAIN posts :
             (date(posts[a].publish) = date(posts[b].publish)
                  /\ posts[a].slug = posts[b].slug)
                 => get_absolute_url(posts[a]) = get_absolute_url(posts[b])
       /\ \A id \in DOMAIN posts \cap DOMAIN posts' :
             (date(posts'[id].publish) = date(posts[id].publish)
                  /\ posts'[id].slug = posts[id].slug)
                 => get_absolute_url(posts'[id]) = get_absolute_url(posts[id])
      ]_vars

\* reverse() has been handed the components of a post published on 2023-12-31
\* while a second post with that slug and date, another publish slot and
\* another status is stored.
C8_Witness ==
    /\ reversed.args = <<2023, 12, 31, "hi">>
    /\ \E a, b \in DOMAIN posts :
          /\ a # b
          /\ get_absolute_url(posts[a]) = reversed
          /\ get_absolute_url(posts[b]) = reversed
          /\ posts[a].publish # posts[b].publish
          /\ posts[a].status # posts[b].status

\* C4: deleting a post removes exactly the comments on it, deleting a user
\* removes exactly that user's posts and the comments on those posts, every
\* other row is left as it was, and after every step each stored comment
\* references a stored post and each stored post an existing user.
C4_CascadeDelete ==
    [][/\ \A c \in DOMAIN comments' : comments'[c].post \in DOMAIN posts'
       /\ \A p \in DOMAIN posts' : posts'[p].author \in users'
       /\ \A id \in DOMAIN posts :
             PostDelete(id) =>
                 /\ DOMAIN posts' = DOMAIN posts \ {id}
                 /\ \A p \in DOMAIN posts' : posts'[p] = posts[p]
                 /\ DOMAIN comments' = {c \in DOMAIN comments : comments[c].post # id}
                 /\ \A c \in DOMAIN comments' : comments'[c] = comments[c]
                 /\ users' = users
       /\ \A u \in users :
             UserDelete(u) =>
                 /\ DOMAIN posts' = {p \in DOMAIN posts : posts[p].author # u}
                 /\ \A p \in DOMAIN posts' : posts'[p] = posts[p]
                 /\ DOMAIN comments' =
                        {c \in DOMAIN comments : posts[comments[c].post].author # u}
                 /\ \A c \in DOMAIN comments' : comments'[c] = comments[c]
                 /\ users' = users \ {u}
      ]_vars

\* User u1 has been deleted; a post is gone and with it a comment (no step of
\* SpecCascade deletes a comment by itself), while the other user's post and the
\* comment on it are still stored.
C4_Witness ==
    /\ users = {"u2"}
    /\ \E p \in PostKeys : p \notin DOMAIN posts
    /\ \E c \in CommentKeys : c \notin DOMAIN comments
    /\ \E c \in DOMAIN comments : posts[comments[c].post].author = "u2"

\* C9 (as claimed): a stored comment's post reference never changes.
C9_NoReassignment ==
    [][\A c \in DOMAIN comments \cap DOMAIN comments' :
           comments'[c].post = comments[c].post]_vars

\* C9 (amended): a stored comment references exactly one stored post at every
\* moment of its life: the reference is set at creation and is never null, and
\* it changes only to another post that is stored at the time of the update.
C9_AlwaysOneStoredPost ==
    [][/\ \A c \in DOMAIN comments' :
             comments'[c].post # None /\ comments'[c].post \in DOMAIN posts'
       /\ \A c \in DOMAIN comments \cap DOMAIN comments' :
             comments'[c].post # comments[c].post
                 => (comments'[c].post \in DOMAIN posts /\ posts' = posts)
      ]_vars

\* A comment references a post that was inserted after the comment was: it was
\* created on one post and an update moved it to another.
C9_Witness ==
    \E c \in DOMAIN comments :
        /\ comments[c].created < posts[comments[c].post].created
        /\ comments[c].updated > comments[c].created
        /\ \E p \in DOMAIN posts : posts[p].created <= comments[c].created

IsOrdering(r, qs) ==
    /\ Len(r) = Cardinality(qs)
    /\ {r[i] : i \in 1..Len(r)} = qs

\* C7: in every reachable state a query of posts without an explicit order,
\* through Post.objects or Post.published, lists each row of the queryset once,
\* latest publish first, and a query of comments lists each comment once,
\* earliest created first.
C7_DefaultOrdering ==
    /\ \A r \in Post_ordering(Manager_get_queryset) :
          /\ IsOrdering(r, DOMAIN posts)
          /\ \A i, j \in 1..Len(r) : i < j => posts[r[i]].publish >= posts[r[j]].publish
    /\ \A r \in Post_ordering(PublishedManager_get_queryset) :
          /\ IsOrdering(r, {id \in DOMAIN posts : posts[id].status = "PB"})
          /\ \A i, j \in 1..Len(r) : i < j => posts[r[i]].publish >= posts[r[j]].publish
    /\ \A r \in Comment_ordering(DOMAIN comments) :
          /\ IsOrdering(r, DOMAIN comments)
          /\ \A i, j \in 1..Len(r) : i < j => comments[r[i]].created <= comments[r[j]].created
    /\ Post_ordering(Manager_get_queryset) # {}
    /\ Post_ordering(PublishedManager_get_queryset) # {}
    /\ Comment_ordering(DOMAIN comments) # {}

\* Two published posts, the one inserted later with the later publish time,
\* and two comments created in different clock slots.
C7_Witness ==
    /\ PublishedManager_get_queryset = {1, 2}
    /\ posts[1].publish < posts[2].publish
    /\ Post_ordering(PublishedManager_get_queryset) = {<<2, 1>>}
    /\ DOMAIN comments = {1, 2}
    /\ comments[1].created < comments[2].created
    /\ Comment_ordering(DOMAIN comments) = {<<1, 2>>}

\* The timestamps of one table over a step, as C6 states them: a new row has
\* created and updated at the insert time, a row already stored keeps its
\* created, a row that a save changed has updated at the save time, and
\* created is never later than updated.
AutoTimestamps(old, new) ==
    \A id \in DOMAIN new :
        /\ id \notin DOMAIN old => (new[id].created = now /\ new[id].updated = now)
        /\ id \in DOMAIN old =>
              /\ new[id].created = old[id].created
              /\ (new[id] # old[id] => new[id].updated = now)
        /\ new[id].created <= new[id].updated

\* C6 (as claimed): for posts and for comments created is the insert time and
\* never changes, updated is the time of the last save, and created <= updated.
C6_AutoTimestamps ==
    [][AutoTimestamps(posts, posts') /\ AutoTimestamps(comments, comments')]_vars

\* C10: a post created without a status is stored as Draft and is not in the
\* published accessor; a post enters the accessor only by an update (or insert)
\* that stores Published and leaves it again by an update that stores Draft; a
\* post created without publish gets the current time; a comment created
\* without active is stored active.
C10_Defaults ==
    [][/\ \A hasPublish \in BOOLEAN, t \in Times, st \in Status_choices :
             PostCreate(PostKwargs(hasPublish, t, FALSE, st)) =>
                 /\ posts'[nextPostId].status = "DF"
                 /\ nextPostId \notin PublishedManager_get_queryset'
       /\ \A hasStatus \in BOOLEAN, t \in Times, st \in Status_choices :
             PostCreate(PostKwargs(FALSE, t, hasStatus, st)) =>
                 posts'[nextPostId].publish = now
       /\ \A id \in DOMAIN posts :
             /\ PostUpdate(id, [status |-> "PB"]) => id \in PublishedManager_get_queryset'
             /\ PostUpdate(id, [status |-> "DF"]) => id \notin PublishedManager_get_queryset'
             /\ (id \notin PublishedManager_get_queryset
                    /\ id \in PublishedManager_get_queryset')
                   => PostUpdate(id, [status |-> "PB"])
       /\ CommentCreate([post |-> 1]) => comments'[nextCommentId].active = TRUE
      ]_vars

\* At a clock time other than 0: a draft whose publish is the current time, a
\* post that an update published, one whose publish was given, and an active
\* and an inactive comment.
C10_Witness ==
    /\ now > 0
    /\ \E a, b \in DOMAIN posts :
          /\ posts[a].status = "DF" /\ posts[a].publish = now
          /\ a \notin PublishedManager_get_queryset
          /\ b \in PublishedManager_get_queryset /\ posts[b].publish # now
    /\ \E c, d \in DOMAIN comments : comments[c].active /\ ~ comments[d].active
====
